---- MODULE Spec2Model ----
(***************************************************************************)
(* Model of the what-if scenario pipeline of EquilibriumAI:                *)
(*   src/simulator.py       recalculate_emissions, compute_diff            *)
(*   src/minimax_client.py  chat_with_tools, chat                          *)
(*   src/app.py             simulate_endpoint (POST /simulate)             *)
(*                                                                         *)
(* Numbers.  The code computes in binary floating point; the model         *)
(* computes the same expressions in exact fixed point.  A JSON number is   *)
(* an integer count of thousandths (1.83 is 1830, 50 is 50000).  A mass    *)
(* is a pair <<q, r>> standing for q + r/Den tenths of a kilogram with     *)
(* 0 <= r < Den, so that every stage total of the code is represented      *)
(* exactly for factors with three decimals and percentages with one.       *)
(* Rounded outputs are integers: tenths of a kilogram, tenths of a         *)
(* percent (pct), hundredths of a percent (delta_pct).                     *)
(***************************************************************************)
EXTENDS Integers, Sequences, FiniteSets, TLC

(***************************************************************************)
(* Exact arithmetic on masses                                              *)
(***************************************************************************)
\* 7 comes from owala_share = 90000 / 4200000 = 3/140; 10^5 from the decimals
Den == 7 * 100000

PNorm(q, r) == <<q + (r \div Den), r % Den>>
PInt(n) == <<n, 0>>
PAdd(a, b) == PNorm(a[1] + b[1], a[2] + b[2])
PNeg(a) == IF a[2] = 0 THEN <<-a[1], 0>> ELSE <<-a[1] - 1, Den - a[2]>>
PSub(a, b) == PAdd(a, PNeg(b))
PLess(a, b) == a[1] < b[1] \/ (a[1] = b[1] /\ a[2] < b[2])
PLeq(a, b) == a = b \/ PLess(a, b)
PZero == <<0, 0>>
PSign(a) == IF a[1] < 0 THEN -1 ELSE IF a = PZero THEN 0 ELSE 1
PAbs(a) == IF a[1] < 0 THEN PNeg(a) ELSE a
PTimes(k, a) == PNorm(k * a[1], k * a[2])

\* Python round(x, 1) of a mass: nearest tenth of a kilogram, ties to even
PRound(a) ==
    IF 2 * a[2] < Den THEN a[1]
    ELSE IF 2 * a[2] > Den THEN a[1] + 1
    ELSE IF a[1] % 2 = 0 THEN a[1] ELSE a[1] + 1

\* how many times b fits in a, for 0 <= a < 10 * b
RECURSIVE PCount(_, _)
PCount(a, b) == IF PLess(a, b) THEN 0 ELSE 1 + PCount(PSub(a, b), b)

\* one digit of a long division: the quotient so far is up[1], the
\* remainder up[2] holds c times b
PQuoRemDigit(up, b, c) == <<10 * up[1] + c, PSub(up[2], PTimes(c, b))>>
PQuoRemStep(up, b) == PQuoRemDigit(up, b, PCount(up[2], b))

\* <<floor(a / b), a - floor(a / b) * b>> for a >= 0, b > 0
RECURSIVE PQuoRem(_, _)
PQuoRem(a, b) ==
    IF PLess(a, b) THEN <<0, a>> ELSE PQuoRemStep(PQuoRem(a, PTimes(10, b)), b)

\* k more decimal digits of the quotient qr[1] with remainder qr[2]
RECURSIVE PDigits(_, _, _)
PDigits(qr, b, k) ==
    IF k = 0 THEN qr ELSE PDigits(PQuoRemStep(<<qr[1], PTimes(10, qr[2])>>, b), b, k - 1)

\* the quotient qr[1], one more when the remainder qr[2] is above half of
\* b, and the even neighbour when it is exactly half
PRoundHalfEven(qr, twice, b) ==
    IF PLess(twice, b) THEN qr[1]
    ELSE IF PLess(b, twice) THEN qr[1] + 1
    ELSE IF qr[1] % 2 = 0 THEN qr[1] ELSE qr[1] + 1
PRoundQuoRem(qr, b) == PRoundHalfEven(qr, PTimes(2, qr[2]), b)

\* Python round(a / b, k) for masses a, b # 0, in units of 10^-k: the
\* quotient with k decimal digits, rounded to nearest, ties to even
PRoundDiv(a, b, k) ==
    PSign(a) * PSign(b) * PRoundQuoRem(PDigits(PQuoRem(PAbs(a), PAbs(b)), PAbs(b), k), PAbs(b))

(***************************************************************************)
(* JSON values: what json.loads and resp.json() hand to the code           *)
(***************************************************************************)
NoFields == [k \in {} |-> 0]
Num(n)  == [t |-> "num",  n |-> n, s |-> "", o |-> NoFields]
Str(s)  == [t |-> "str",  n |-> 0, s |-> s,  o |-> NoFields]
Bool(b) == [t |-> "bool", n |-> IF b THEN 1000 ELSE 0, s |-> "", o |-> NoFields]
Null    == [t |-> "null", n |-> 0, s |-> "", o |-> NoFields]
Obj(f)  == [t |-> "obj",  n |-> 0, s |-> "", o |-> f]

\* dict.get(key, default)
Get(d, key, default) == IF key \in DOMAIN d.o THEN d.o[key] ELSE default
\* Python truthiness of a JSON value
Truthy(v) ==
    CASE v.t = "str"  -> v.s # ""
      [] v.t = "num"  -> v.n # 0
      [] v.t = "bool" -> v.n # 0
      [] v.t = "null" -> FALSE
      [] v.t = "obj"  -> DOMAIN v.o # {}
\* int, float and bool take part in float arithmetic; str, None, dict raise
IsNumber(v) == v.t \in {"num", "bool"}

(***************************************************************************)
(* src/simulator.py: constants                                             *)
(***************************************************************************)
TOTAL_UNITS == 90000
UNITS_24OZ == 60500
UNITS_32OZ == 29500

OCEAN_SHIPMENTS == <<
    [name |-> "COSCO Orchid 0285E",   containers |-> 1, units |-> 15000, teu_class |-> 19100, speed |-> "slow"],
    [name |-> "COSCO Peony 0312E",    containers |-> 1, units |-> 12000, teu_class |-> 19100, speed |-> "slow"],
    [name |-> "COSCO Jasmine 0318E",  containers |-> 1, units |-> 10000, teu_class |-> 19100, speed |-> "slow"],
    [name |-> "COSCO Universe 0331E", containers |-> 2, units |-> 20000, teu_class |-> 21237, speed |-> "slow"],
    [name |-> "COSCO Nebula 0338E",   containers |-> 1, units |-> 15000, teu_class |-> 19100, speed |-> "slow"],
    [name |-> "Maersk Edirne 249W",   containers |-> 1, units |-> 18000, teu_class |-> 15282, speed |-> "express"] >>

OCEAN_CO2_PER_CONTAINER ==
    [ slow       |-> (19100 :> 1360 @@ 21237 :> 1240 @@ 15282 :> 1180),
      moderate   |-> (19100 :> 1520 @@ 21237 :> 1390 @@ 15282 :> 1320),
      express    |-> (19100 :> 1780 @@ 21237 :> 1630 @@ 15282 :> 1530),
      ultra_slow |-> (19100 :> 1120 @@ 21237 :> 1020 @@ 15282 :> 970) ]

DRAYAGE_TRIPS_DIESEL == 6
DRAYAGE_TRIPS_EV == 1
\* 181.3 and 23.0 kg per trip, in tenths of a kilogram
DRAYAGE_CO2_DIESEL == 1813
DRAYAGE_CO2_EV == 230

StageNames == <<"Raw Materials", "Inland Trucking (China)", "Manufacturing",
                "Packaging Production", "Ocean Freight", "Port Drayage (US)",
                "Warehousing (DC)", "DC to Retail", "Last Mile (e-comm)">>

\* the override keys whose value enters float arithmetic
NumericKeys == {"raw_materials.steel_factor", "raw_materials.tritan_factor",
                "raw_materials.silicone_factor", "manufacturing.grid_factor",
                "manufacturing.renewable_pct", "port_drayage.ev_pct",
                "warehousing.renewable_pct", "warehousing.efficiency_gain_pct",
                "distribution.ftl_shift_pct"}

\* num / den tenths of a kilogram as a mass, for den a divisor of Den
PFrac(num, den) == <<num \div den, (num % den) * (Den \div den)>>
\* x * m / den tenths of a kilogram, x * m too wide for one machine integer
PMulFrac(x, m, den) == PAdd(PInt((x \div den) * m), PFrac((x % den) * m, den))
\* value / 100.0 of a percentage, in thousandths of the whole (tenths of a percent)
Fraction(v) == v.n \div 100

(***************************************************************************)
(* src/simulator.py: the stage calculators (unrounded stage totals)        *)
(***************************************************************************)
raw_materials_total(overrides) ==
    LET steel_factor    == Get(overrides, "raw_materials.steel_factor", Num(1830)).n
        tritan_factor   == Get(overrides, "raw_materials.tritan_factor", Num(3800)).n
        silicone_factor == Get(overrides, "raw_materials.silicone_factor", Num(4230)).n
        \* kilograms of material times 10: 260 g and 327 g of steel per unit, ...
        steel_mass    == (UNITS_24OZ * 260 + UNITS_32OZ * 327) \div 100
        tritan_mass   == (UNITS_24OZ * 38 + UNITS_32OZ * 42) \div 100
        silicone_mass == (UNITS_24OZ * 26 + UNITS_32OZ * 30) \div 100
        steel_co2    == PFrac(steel_mass * steel_factor, 1000)
        tritan_co2   == PFrac(tritan_mass * tritan_factor, 1000)
        silicone_co2 == PFrac(silicone_mass * silicone_factor, 1000)
        other_materials_co2 == PInt((944 + 496) * 10)
    IN  PAdd(PAdd(steel_co2, tritan_co2), PAdd(silicone_co2, other_materials_co2))

inland_trucking_total == PInt(7927 * 10)

manufacturing_total(overrides) ==
    LET base_grid_factor == Get(overrides, "manufacturing.grid_factor", Num(581)).n
        renewable_pct == Fraction(Get(overrides, "manufacturing.renewable_pct", Num(0)))
        \* owala_share = TOTAL_UNITS / 4200000 = 3 / 140, so the three terms
        \* are kept in 1/700 of a tenth of a kilogram
        annual_kwh == 3840000
        kwh_share  == ((annual_kwh \div 1000) * (TOTAL_UNITS \div 1000) * 7) \div 4200
        electricity_co2 == kwh_share * base_grid_factor * (1000 - renewable_pct)
        gas_co2    == ((768 * (TOTAL_UNITS \div 1000) * 700) \div 4200) * 1000
        diesel_co2 == ((220 * (TOTAL_UNITS \div 1000) * 700) \div 4200) * 1000
    IN  PFrac(electricity_co2 + gas_co2 + diesel_co2, 700)

packaging_total == PInt(720 * 10)

\* a given speed_mode put on every shipment, all_same_speed or not
ship_speed_everywhere(overrides, s) ==
    IF Truthy(Get(overrides, "ocean_freight.speed_mode", Null))
    THEN Get(overrides, "ocean_freight.speed_mode", Null) ELSE Str(s.speed)

\* the speed tier shipment s is computed at (a JSON value)
ship_speed(overrides, s) ==
    LET speed_mode     == Get(overrides, "ocean_freight.speed_mode", Null)
        all_same_speed == Get(overrides, "ocean_freight.all_same_speed", Bool(FALSE))
        first == IF Truthy(all_same_speed) /\ Truthy(speed_mode)
                 THEN speed_mode ELSE Str(s.speed)
    IN  IF Truthy(speed_mode) /\ ~Truthy(all_same_speed) /\ s.speed = "express"
        THEN speed_mode ELSE first

\* OCEAN_CO2_PER_CONTAINER.get(speed, OCEAN_CO2_PER_CONTAINER["slow"]).get(teu_class, 1360)
co2_per_container(speed, teu_class) ==
    LET row == IF speed.t = "str" /\ speed.s \in DOMAIN OCEAN_CO2_PER_CONTAINER
               THEN OCEAN_CO2_PER_CONTAINER[speed.s]
               ELSE OCEAN_CO2_PER_CONTAINER["slow"]
    IN  IF teu_class \in DOMAIN row THEN row[teu_class] ELSE 1360

shipment_details(overrides) ==
    [i \in 1..Len(OCEAN_SHIPMENTS) |->
        LET s == OCEAN_SHIPMENTS[i]
            speed == ship_speed(overrides, s)
        IN  [name |-> s.name, speed |-> speed, containers |-> s.containers,
             co2_kg |-> co2_per_container(speed, s.teu_class) * s.containers * 10]]

RECURSIVE SumCo2(_, _)
SumCo2(details, n) == IF n = 0 THEN 0 ELSE details[n].co2_kg + SumCo2(details, n - 1)

ocean_sum(details) == PInt(SumCo2(details, Len(details)))

ocean_total(overrides) == ocean_sum(shipment_details(overrides))

\* the EV trips cut down to a whole trip instead of rounded
ev_trips_truncated(overrides) ==
    ((DRAYAGE_TRIPS_DIESEL + DRAYAGE_TRIPS_EV)
     * Fraction(Get(overrides, "port_drayage.ev_pct", Num(14300)))) \div 1000

ev_trips(overrides) ==
    LET ev_pct == Fraction(Get(overrides, "port_drayage.ev_pct", Num(14300)))
        total_trips == DRAYAGE_TRIPS_DIESEL + DRAYAGE_TRIPS_EV
    IN  PRoundDiv(PInt(total_trips * ev_pct), PInt(1000), 0)

\* diesel_trips = total_trips - ev_trips
diesel_trips(ev) == (DRAYAGE_TRIPS_DIESEL + DRAYAGE_TRIPS_EV) - ev

drayage_cost(ev) == PInt(diesel_trips(ev) * DRAYAGE_CO2_DIESEL + ev * DRAYAGE_CO2_EV)

drayage_total(overrides) == drayage_cost(ev_trips(overrides))

warehousing_total(overrides) ==
    LET base_warehousing == 117000
        wh_renewable_pct == Fraction(Get(overrides, "warehousing.renewable_pct", Num(0)))
        wh_efficiency    == Fraction(Get(overrides, "warehousing.efficiency_gain_pct", Num(0)))
        electricity_share == 676
        \* millionths of base_warehousing left after the renewable discount
        mix == electricity_share * (1000 - wh_renewable_pct)
               + (1000 - electricity_share) * 1000
    IN  PMulFrac((base_warehousing \div 1000) * mix, 1000 - wh_efficiency, 100000)

distribution_total(overrides) ==
    LET ftl_shift == Fraction(Get(overrides, "distribution.ftl_shift_pct", Num(0)))
        base_ftl_co2 == 1410
        base_ltl_co2 == 11970
        shifted_ltl   == PFrac(base_ltl_co2 * ftl_shift, 100)
        shifted_at_63 == PMulFrac(base_ltl_co2 * ftl_shift, 63, 10000)
    IN  PAdd(PInt(base_ftl_co2 * 10),
             PAdd(PSub(PInt(base_ltl_co2 * 10), shifted_ltl), shifted_at_63))

last_mile_total == PInt(12553 * 10)

\* the list `stages` of the code, unrounded, in the order the code builds it
stages(overrides) ==
    << raw_materials_total(overrides), inland_trucking_total,
       manufacturing_total(overrides), packaging_total, ocean_total(overrides),
       drayage_total(overrides), warehousing_total(overrides),
       distribution_total(overrides), last_mile_total >>

RECURSIVE PSum(_, _)
PSum(seq, n) == IF n = 0 THEN PZero ELSE PAdd(seq[n], PSum(seq, n - 1))

grand_total(vals) == PSum(vals, 9)

(***************************************************************************)
(* src/simulator.py: recalculate_emissions                                 *)
(***************************************************************************)
\* the exception recalculate_emissions raises on these overrides, or "ok"
recalculate_raises(overrides, total) ==
    IF overrides.t # "obj" THEN "AttributeError"
    ELSE IF \E k \in NumericKeys \cap DOMAIN overrides.o : ~IsNumber(overrides.o[k])
         THEN "TypeError"
    ELSE IF Get(overrides, "ocean_freight.speed_mode", Null).t = "obj"
            /\ Truthy(Get(overrides, "ocean_freight.speed_mode", Null))
         THEN "TypeError"
    ELSE IF total = PZero THEN "ZeroDivisionError"
    ELSE "ok"

\* by_stage with each percentage cut to one decimal instead of rounded
by_stage_truncated(vals, total) ==
    [i \in 1..9 |->
        [stage |-> StageNames[i],
         kg_co2e |-> PRound(vals[i]),
         pct |-> PSign(vals[i]) * PSign(total)
                 * PDigits(PQuoRem(PAbs(vals[i]), PAbs(total)), PAbs(total), 3)[1]]]

\* result["totals"]["by_stage"]
by_stage(vals, total) ==
    [i \in 1..9 |->
        [stage |-> StageNames[i],
         kg_co2e |-> PRound(vals[i]),
         pct |-> PRoundDiv(vals[i], total, 3)]]

\* the dict the function returns, from its unrounded locals
result(overrides, vals, total, ev) ==
    [raised |-> "ok",
     raw_materials   |-> [total_kg_co2e |-> PRound(vals[1])],
     inland_trucking |-> [total_kg_co2e |-> PRound(vals[2])],
     manufacturing   |-> [total_kg_co2e |-> PRound(vals[3])],
     packaging       |-> [total_kg_co2e |-> PRound(vals[4])],
     ocean_freight   |-> [total_kg_co2e |-> PRound(vals[5]),
                          shipments |-> shipment_details(overrides)],
     port_drayage    |-> [total_kg_co2e |-> PRound(vals[6]),
                          diesel_trips |-> diesel_trips(ev),
                          ev_trips |-> ev],
     warehousing     |-> [total_kg_co2e |-> PRound(vals[7])],
     distribution    |-> [total_kg_co2e |-> PRound(vals[8])],
     last_mile       |-> [total_kg_co2e |-> PRound(vals[9])],
     totals |-> [total_kg_co2e |-> PRound(total),
                 by_stage |-> by_stage(vals, total)]]

recalculate_checked(overrides, vals, total) ==
    IF recalculate_raises(overrides, total) # "ok"
    THEN [raised |-> recalculate_raises(overrides, total)]
    ELSE result(overrides, vals, total, ev_trips(overrides))

recalculate_with(overrides, vals) == recalculate_checked(overrides, vals, grand_total(vals))

recalculate_emissions(overrides) == recalculate_with(overrides, stages(overrides))

(***************************************************************************)
(* src/simulator.py: compute_diff                                          *)
(***************************************************************************)
\* the hardcoded baseline, in kilograms, in the order of the dict literal
original_stages == <<64710, 7927, 49950, 720, 9450, 1112, 117000, 13380, 12553>>
original_total == 213602

\* sim_stages.get(stage_name, orig_val), in tenths of a kilogram
sim_val(simulated, i) ==
    LET found == {j \in 1..Len(simulated.totals.by_stage) :
                     simulated.totals.by_stage[j].stage = StageNames[i]}
    IN  IF found = {} THEN original_stages[i] * 10
        ELSE simulated.totals.by_stage[CHOOSE j \in found : \A m \in found : m <= j].kg_co2e

compute_diff(simulated) ==
    LET sim_total == simulated.totals.total_kg_co2e
        delta_total == sim_total - original_total * 10
    IN  [total |-> [original_kg |-> original_total * 10,
                    simulated_kg |-> sim_total,
                    delta_kg |-> delta_total,
                    delta_pct |-> PRoundDiv(PInt(delta_total), PInt(original_total * 10), 4)],
         by_stage |-> [i \in 1..9 |->
             LET delta == sim_val(simulated, i) - original_stages[i] * 10
             IN  [stage |-> StageNames[i],
                  original_kg |-> original_stages[i] * 10,
                  simulated_kg |-> sim_val(simulated, i),
                  delta_kg |-> delta,
                  delta_pct |-> IF original_stages[i] > 0
                                THEN PRoundDiv(PInt(delta), PInt(original_stages[i] * 10), 4)
                                ELSE 0]]]

(***************************************************************************)
(* Bounded inputs                                                          *)
(***************************************************************************)
\* the largest number of keys in an overrides mapping the model sends
MaxOverrides == 2

\* the values tried for each override key: in-range, out-of-range and
\* wrongly typed ones (numbers are thousandths: 50000 is 50)
OverrideValues ==
    [ raw_materials_steel_factor      |-> {Num(1200), Num(1400), Num(-1000), Str("1.2")},
      raw_materials_tritan_factor     |-> {Num(2500)},
      raw_materials_silicone_factor   |-> {Num(4000)},
      manufacturing_grid_factor       |-> {Num(300)},
      manufacturing_renewable_pct     |-> {Num(50000), Num(100000)},
      port_drayage_ev_pct             |-> {Num(0), Num(50000), Num(80000), Num(100000), Num(-50000)},
      warehousing_renewable_pct       |-> {Num(50000), Num(300000), Str("50")},
      warehousing_efficiency_gain_pct |-> {Num(25000), Num(65000), Num(150000)},
      distribution_ftl_shift_pct      |-> {Num(25000), Num(100000)},
      ocean_freight_speed_mode        |-> {Str("ultra_slow"), Str("moderate"), Str("warp")},
      ocean_freight_all_same_speed    |-> {Bool(TRUE), Bool(FALSE)},
      foo_bar                         |-> {Num(1000)} ]

\* the wire name of each key
KeyName ==
    [ raw_materials_steel_factor      |-> "raw_materials.steel_factor",
      raw_materials_tritan_factor     |-> "raw_materials.tritan_factor",
      raw_materials_silicone_factor   |-> "raw_materials.silicone_factor",
      manufacturing_grid_factor       |-> "manufacturing.grid_factor",
      manufacturing_renewable_pct     |-> "manufacturing.renewable_pct",
      port_drayage_ev_pct             |-> "port_drayage.ev_pct",
      warehousing_renewable_pct       |-> "warehousing.renewable_pct",
      warehousing_efficiency_gain_pct |-> "warehousing.efficiency_gain_pct",
      distribution_ftl_shift_pct      |-> "distribution.ftl_shift_pct",
      ocean_freight_speed_mode        |-> "ocean_freight.speed_mode",
      ocean_freight_all_same_speed    |-> "ocean_freight.all_same_speed",
      foo_bar                         |-> "foo.bar" ]

\* every assignment of one of its values to each key of ks
RECURSIVE Assignments(_)
Assignments(ks) ==
    IF ks = {} THEN {NoFields}
    ELSE LET c == CHOOSE x \in ks : TRUE
         IN  {(KeyName[c] :> v) @@ f : v \in OverrideValues[c], f \in Assignments(ks \ {c})}

\* every overrides mapping of at most MaxOverrides keys over those values
OverrideSets ==
    UNION { {Obj(f) : f \in Assignments(ks)} :
            ks \in {x \in SUBSET DOMAIN OverrideValues : Cardinality(x) <= MaxOverrides} }

Scenarios == {"", "switch the warehouse to renewables", "run every vessel ultra slow"}

(***************************************************************************)
(* src/minimax_client.py: what the external model sends back               *)
(***************************************************************************)
\* json.loads on the texts the model sends: the value parsed, for the texts
\* that are JSON; every other text raises JSONDecodeError
JsonTexts ==
    ( "50"    :> Num(50000) ) @@
    ( "1.2"   :> Num(1200) ) @@
    ( "true"  :> Bool(TRUE) ) @@
    ( "null"  :> Null ) @@
    ( "\"ultra_slow\"" :> Str("ultra_slow") ) @@
    ( "{}"    :> Obj(NoFields) ) @@
    ( "{\"warehousing.renewable_pct\": 50}" :>
          Obj("warehousing.renewable_pct" :> Num(50000)) ) @@
    ( "{\"overrides\": {\"warehousing.renewable_pct\": 50}, \"scenario_name\": \"Renewable Warehouse\"}" :>
          Obj(("overrides" :> Obj("warehousing.renewable_pct" :> Num(50000))) @@
              ("scenario_name" :> Str("Renewable Warehouse"))) )

\* texts that are not JSON
NotJsonTexts == {"ultra_slow", "Renewable Warehouse", "50%", "{\"overrides\": {\"warehousing"}

json_loads_raises(text) == text \notin DOMAIN JsonTexts
json_loads(text) == JsonTexts[text]

\* str.strip() on the parameter texts the model sends
strip(text) ==
    CASE text = " 50 " -> "50"
      [] text = "\n{\"warehousing.renewable_pct\": 50}\n" -> "{\"warehousing.renewable_pct\": 50}"
      [] OTHER -> text

\* a parameter value of the tagged markup: json.loads when it parses,
\* else the stripped text itself
parameter_value(text) ==
    IF json_loads_raises(strip(text)) THEN Str(strip(text)) ELSE json_loads(strip(text))

\* the params dict of one invoke element: a later parameter of the same
\* name replaces an earlier one
RECURSIVE invoke_params(_, _)
invoke_params(parameters, n) ==
    IF n = 0 THEN NoFields
    ELSE (parameters[n].name :> parameter_value(parameters[n].text))
         @@ invoke_params(parameters, n - 1)

\* the fallback taking a block without an invoke element for a call
RECURSIVE xml_tool_calls_noskip(_, _)
xml_tool_calls_noskip(blocks, n) ==
    IF n = 0 THEN <<>>
    ELSE Append(xml_tool_calls_noskip(blocks, n - 1),
                [id |-> "", name |-> blocks[n].invoke,
                 arguments |-> Obj(invoke_params(blocks[n].parameters,
                                                 Len(blocks[n].parameters)))])

\* the tool calls the fallback finds in the tagged blocks of the content:
\* a block without an invoke element is skipped
RECURSIVE xml_tool_calls(_, _)
xml_tool_calls(blocks, n) ==
    IF n = 0 THEN <<>>
    ELSE LET rest == xml_tool_calls(blocks, n - 1)
             b == blocks[n]
         IN  IF b.invoke = "" THEN rest
             ELSE Append(rest, [id |-> "", name |-> b.invoke,
                                arguments |-> Obj(invoke_params(b.parameters,
                                                                Len(b.parameters)))])

\* does some structured call carry an argument text json.loads rejects
native_raises(calls) ==
    \E i \in 1..Len(calls) :
        calls[i].arguments.is_str /\ json_loads_raises(calls[i].arguments.text)

native_tool_calls(calls) ==
    [i \in 1..Len(calls) |->
        [id |-> calls[i].id, name |-> calls[i].name,
         arguments |-> IF calls[i].arguments.is_str
                       THEN json_loads(calls[i].arguments.text)
                       ELSE calls[i].arguments.value]]

\* chat_with_tools swallowing an argument text that is not JSON
chat_with_tools_lenient(reply) ==
    IF reply.failure # "none" THEN [raised |-> reply.failure]
    ELSE IF Len(reply.message.tool_calls) > 0
    THEN [raised |-> "none", content |-> reply.message.content,
          tool_calls |->
              [i \in 1..Len(reply.message.tool_calls) |->
                  [id |-> reply.message.tool_calls[i].id,
                   name |-> reply.message.tool_calls[i].name,
                   arguments |->
                       IF ~reply.message.tool_calls[i].arguments.is_str
                       THEN reply.message.tool_calls[i].arguments.value
                       ELSE IF json_loads_raises(reply.message.tool_calls[i].arguments.text)
                       THEN Obj(NoFields)
                       ELSE json_loads(reply.message.tool_calls[i].arguments.text)]]]
    ELSE [raised |-> "none", content |-> reply.message.content,
          tool_calls |-> xml_tool_calls(reply.message.content.blocks,
                                        Len(reply.message.content.blocks))]

\* chat_with_tools on a reply: the exception raised, or the pair returned
chat_with_tools(reply) ==
    IF reply.failure # "none" THEN [raised |-> reply.failure]
    ELSE IF Len(reply.message.tool_calls) > 0
    THEN IF native_raises(reply.message.tool_calls)
         THEN [raised |-> "JSONDecodeError"]
         ELSE [raised |-> "none", content |-> reply.message.content,
               tool_calls |-> native_tool_calls(reply.message.tool_calls)]
    ELSE [raised |-> "none", content |-> reply.message.content,
          tool_calls |-> xml_tool_calls(reply.message.content.blocks,
                                        Len(reply.message.content.blocks))]

\* chat on a reply: the exception raised, or the text returned
chat(reply) ==
    IF reply.failure # "none" THEN [raised |-> reply.failure]
    ELSE [raised |-> "none", content |-> reply.message.content]

(***************************************************************************)
(* The replies the external model is let to send                           *)
(***************************************************************************)
\* requests.post raises, raise_for_status raises, resp.json() raises,
\* data["choices"][0]["message"] is missing
Failures == {"ConnectionError", "HTTPError", "ValueError", "RuntimeError"}

Text(t) == [text |-> t, blocks |-> <<>>]
Tagged(t, blocks) == [text |-> t, blocks |-> blocks]
Param(name, text) == [name |-> name, text |-> text]
ArgText(text) == [is_str |-> TRUE, text |-> text, value |-> Null]
ArgValue(v) == [is_str |-> FALSE, text |-> "", value |-> v]
Failed(f) == [failure |-> f, message |-> [content |-> Text(""), tool_calls |-> <<>>]]
Replied(content, calls) == [failure |-> "none",
                            message |-> [content |-> content, tool_calls |-> calls]]
Call(id, args) == [id |-> id, name |-> "recalculate_emissions", arguments |-> args]

\* the contents a reply without a structured call may have
FallbackContents ==
    { Text("I would lower the grid factor."),
      Tagged("no invoke", << [invoke |-> "", parameters |-> <<>>] >>),
      Tagged("flat parameter",
             << [invoke |-> "recalculate_emissions",
                 parameters |-> << Param("warehousing.renewable_pct", " 50 ") >>] >>),
      Tagged("flat parameters",
             << [invoke |-> "recalculate_emissions",
                 parameters |-> << Param("ocean_freight.speed_mode", "ultra_slow"),
                                   Param("ocean_freight.all_same_speed", "true") >>] >>),
      Tagged("schema parameters",
             << [invoke |-> "recalculate_emissions",
                 parameters |-> << Param("overrides", "\n{\"warehousing.renewable_pct\": 50}\n"),
                                   Param("scenario_name", "Renewable Warehouse") >>] >>),
      Tagged("overrides not an object",
             << [invoke |-> "recalculate_emissions",
                 parameters |-> << Param("overrides", "50%") >>] >>),
      Tagged("two blocks",
             << [invoke |-> "", parameters |-> <<>>],
                [invoke |-> "recalculate_emissions",
                 parameters |-> << Param("overrides", "{}"),
                                   Param("overrides", "{\"warehousing.renewable_pct\": 50}") >>] >>) }

\* the argument payloads of a structured call
NativeArguments ==
    { ArgValue(Obj(("overrides" :> ov) @@ ("scenario_name" :> Str("Scenario A")))) :
        ov \in OverrideSets }
    \cup { ArgValue(Obj("overrides" :> ov)) : ov \in {Obj(NoFields), Null, Str("none")} }
    \cup { ArgValue(Null), ArgValue(Obj(NoFields)) }
    \cup { ArgText(t) : t \in {"{}", "null", "{\"overrides\": {\"warehousing",
           "{\"overrides\": {\"warehousing.renewable_pct\": 50}, \"scenario_name\": \"Renewable Warehouse\"}"} }

Round1Replies ==
    { Failed(f) : f \in Failures }
    \cup { Replied(c, <<>>) : c \in FallbackContents }
    \cup { Replied(Text(""), << Call("call_7", a) >>) : a \in NativeArguments }
    \cup { Replied(Text(""), << Call("call_7", ArgValue(Obj("overrides" :> Obj(NoFields)))),
                               Call("call_8", ArgText("50%")) >>) }

Round2Replies ==
    { Failed(f) : f \in Failures }
    \cup { Replied(Text(t), <<>>) : t \in {"Emissions fall.", "Emissions rise."} }

(***************************************************************************)
(* src/app.py: simulate_endpoint, one request at a time                    *)
(***************************************************************************)
VARIABLES
    pc,             \* where the handler stands: idle, round1, invoked,
                    \* computed, round2, done
    scenario,       \* body["scenario"], stripped
    messages,       \* the conversation sent to the external model
    calls,          \* the calls the handler has made so far, in order
    round1_reply,   \* what the external model answered to round 1
    round2_reply,   \* what the external model answered to round 2
    content,        \* round 1: the reply's text
    tool_calls,     \* round 1: the invocations extracted from the reply
    overrides,      \* tc["arguments"].get("overrides", {})
    scenario_name,  \* tc["arguments"].get("scenario_name", scenario)
    simulated,      \* recalculate_emissions(CARBON_DATA, overrides)
    diff,           \* compute_diff(CARBON_DATA, simulated)
    response,       \* what the caller receives
    running,        \* the request whose handler holds the processor
    parked,         \* the locals of the handlers of the other requests
    tables          \* the module globals, loaded once at startup

\* the locals of one run of simulate_endpoint
locals == <<pc, scenario, messages, calls, round1_reply, round2_reply, content,
            tool_calls, overrides, scenario_name, simulated, diff, response>>
\* what a handler shares with the rest of the process
shared == <<running, parked, tables>>
vars == <<locals, shared>>

None == [none |-> TRUE]

\* an error string with the exception text it interpolates
ErrorText(text, e) == [text |-> text, e |-> e]
\* jsonify(body), status
Json(status, body) == [status |-> status, json |-> TRUE, body |-> body]
\* an exception no except clause of the handler catches: the framework
\* answers 500 with its own error page, not with a JSON body
Unhandled(e) == [status |-> 500, json |-> FALSE, body |-> [exception |-> e]]

\* the one-line narrative reporting the kilogram delta as the percentage
synthesized_narrative_kg(name, d) ==
    [text |-> "Scenario '{scenario_name}' applied. Total emissions change: {delta_pct}%.",
     scenario_name |-> name, delta_pct |-> d.total.delta_kg]

\* f"Scenario '{scenario_name}' applied. Total emissions change: {diff['total']['delta_pct']}%."
synthesized_narrative(name, d) ==
    [text |-> "Scenario '{scenario_name}' applied. Total emissions change: {delta_pct}%.",
     scenario_name |-> name, delta_pct |-> d.total.delta_pct]

\* the body of a completed simulation
result_body(name, ov, d, sim, narrative) ==
    [scenario |-> name,
     overrides |-> ov,
     original |-> [total_kg_co2e |-> d.total.original_kg],
     simulated |-> [total_kg_co2e |-> d.total.simulated_kg],
     diff |-> d,
     stage_details |-> sim,
     narrative |-> narrative]

\* the two messages appended for round 2
round2_messages(c, tc, name, ov, sim, d) ==
    << [role |-> "assistant", content |-> c,
        tool_calls |-> << [id |-> tc.id, type |-> "function",
                           function |-> [name |-> tc.name, arguments |-> tc.arguments]] >>],
       [role |-> "tool", tool_call_id |-> tc.id,
        content |-> [scenario_name |-> name, overrides_applied |-> ov,
                     simulated_totals |-> sim.totals, diff |-> d]] >>

\* the most requests the server handles at once
NumRequests == 2

\* the locals of a handler that has not started
Idle ==
    [pc |-> "idle", scenario |-> "", messages |-> <<>>, calls |-> <<>>,
     round1_reply |-> None, round2_reply |-> None, content |-> None,
     tool_calls |-> <<>>, overrides |-> None, scenario_name |-> None,
     simulated |-> None, diff |-> None, response |-> None]

\* the module globals as the imports leave them
Startup ==
    [CARBON_DATA |-> "owala-carbon-footprint-dashboard.json",
     OCEAN_SHIPMENTS |-> OCEAN_SHIPMENTS,
     OCEAN_CO2_PER_CONTAINER |-> OCEAN_CO2_PER_CONTAINER,
     DRAYAGE_TRIPS_DIESEL |-> DRAYAGE_TRIPS_DIESEL,
     DRAYAGE_TRIPS_EV |-> DRAYAGE_TRIPS_EV,
     DRAYAGE_CO2_DIESEL |-> DRAYAGE_CO2_DIESEL,
     DRAYAGE_CO2_EV |-> DRAYAGE_CO2_EV]

Init ==
    /\ running = 1
    /\ parked = [r \in 2..NumRequests |-> Idle]
    /\ tables = Startup
    /\ pc = "idle"
    /\ scenario = ""
    /\ messages = <<>>
    /\ calls = <<>>
    /\ round1_reply = None
    /\ round2_reply = None
    /\ content = None
    /\ tool_calls = <<>>
    /\ overrides = None
    /\ scenario_name = None
    /\ simulated = None
    /\ diff = None
    /\ response = None

\* the conversation kept in one list of the module, each request adding to
\* what the requests before it left there
Submit_SharedConversation(s) ==
    /\ pc \in {"idle", "done"}
    /\ scenario' = s
    /\ round1_reply' = None
    /\ round2_reply' = None
    /\ content' = None
    /\ tool_calls' = <<>>
    /\ overrides' = None
    /\ scenario_name' = None
    /\ simulated' = None
    /\ diff' = None
    /\ IF s = ""
       THEN /\ response' = Json(400, [error |-> ErrorText("No scenario provided", "")])
            /\ messages' = <<>>
            /\ calls' = <<>>
            /\ pc' = "done"
       ELSE /\ response' = None
            /\ messages' = parked[CHOOSE r \in DOMAIN parked : TRUE].messages
                           \o << [role |-> "system", content |-> [text |-> "SIMULATE_SYSTEM_PROMPT"]],
                                 [role |-> "user",
                                  content |-> [text |-> "Model this scenario: {scenario}",
                                               scenario |-> s]] >>
            /\ calls' = <<"chat_with_tools">>
            /\ pc' = "round1"
    /\ UNCHANGED shared

\* lines 103-115: a request arrives; an empty scenario is refused, any other
\* starts the conversation and posts round 1
Submit(s) ==
    /\ pc \in {"idle", "done"}
    /\ scenario' = s
    /\ round1_reply' = None
    /\ round2_reply' = None
    /\ content' = None
    /\ tool_calls' = <<>>
    /\ overrides' = None
    /\ scenario_name' = None
    /\ simulated' = None
    /\ diff' = None
    /\ IF s = ""
       THEN /\ response' = Json(400, [error |-> ErrorText("No scenario provided", "")])
            /\ messages' = <<>>
            /\ calls' = <<>>
            /\ pc' = "done"
       ELSE /\ response' = None
            /\ messages' = << [role |-> "system", content |-> [text |-> "SIMULATE_SYSTEM_PROMPT"]],
                              [role |-> "user",
                               content |-> [text |-> "Model this scenario: {scenario}",
                                            scenario |-> s]] >>
            /\ calls' = <<"chat_with_tools">>
            /\ pc' = "round1"
    /\ UNCHANGED shared

\* lines 115-130: round 1 returns or raises; the first invocation is taken
Round1Return(reply) ==
    /\ pc = "round1"
    /\ round1_reply' = reply
    /\ \E r \in {chat_with_tools(reply)} :
           IF r.raised # "none"
           THEN /\ response' = Json(500, [error |-> ErrorText("Minimax API error: {e}", r.raised)])
                /\ pc' = "done"
                /\ UNCHANGED <<content, tool_calls, overrides, scenario_name>>
           ELSE /\ content' = r.content
                /\ tool_calls' = r.tool_calls
                /\ IF Len(r.tool_calls) = 0
                   THEN /\ response' = Json(200,
                               [scenario |-> scenario,
                                narrative |-> r.content,
                                error |-> ErrorText("Model did not call the recalculation tool. Try rephrasing your scenario.", "")])
                        /\ pc' = "done"
                        /\ UNCHANGED <<overrides, scenario_name>>
                   ELSE LET tc == r.tool_calls[1]
                        IN  IF tc.arguments.t # "obj"
                            THEN /\ response' = Unhandled("AttributeError")
                                 /\ pc' = "done"
                                 /\ UNCHANGED <<overrides, scenario_name>>
                            ELSE /\ overrides' = Get(tc.arguments, "overrides", Obj(NoFields))
                                 /\ scenario_name' = Get(tc.arguments, "scenario_name", Str(scenario))
                                 /\ response' = None
                                 /\ pc' = "invoked"
    /\ UNCHANGED <<scenario, messages, calls, round2_reply, simulated, diff>>
    /\ UNCHANGED shared

\* the handler asking for the narrative before it recalculates
Recalculate_NarrativeFirst ==
    /\ pc = "invoked"
    /\ calls' = calls \o <<"chat", "recalculate_emissions">>
    /\ \E sim \in {recalculate_emissions(overrides)} :
           IF sim.raised # "ok"
           THEN /\ response' = Unhandled(sim.raised)
                /\ pc' = "done"
                /\ UNCHANGED simulated
           ELSE /\ simulated' = sim
                /\ pc' = "computed"
                /\ UNCHANGED response
    /\ UNCHANGED <<scenario, messages, round1_reply, round2_reply, content, tool_calls,
                   overrides, scenario_name, diff>>
    /\ UNCHANGED shared

\* line 132: the recalculation; what it raises is caught nowhere
Recalculate ==
    /\ pc = "invoked"
    /\ calls' = Append(calls, "recalculate_emissions")
    /\ \E sim \in {recalculate_emissions(overrides)} :
           IF sim.raised # "ok"
           THEN /\ response' = Unhandled(sim.raised)
                /\ pc' = "done"
                /\ UNCHANGED simulated
           ELSE /\ simulated' = sim
                /\ pc' = "computed"
                /\ UNCHANGED response
    /\ UNCHANGED <<scenario, messages, round1_reply, round2_reply, content, tool_calls,
                   overrides, scenario_name, diff>>
    /\ UNCHANGED shared

\* lines 133-149: the diff, the two messages of round 2, and its post
Diff ==
    /\ pc = "computed"
    /\ \E d \in {compute_diff(simulated)} :
           /\ diff' = d
           /\ messages' = messages \o round2_messages(content, tool_calls[1], scenario_name,
                                                      overrides, simulated, d)
    /\ calls' = calls \o <<"compute_diff", "chat">>
    /\ pc' = "round2"
    /\ UNCHANGED <<scenario, round1_reply, round2_reply, content, tool_calls, overrides,
                   scenario_name, simulated, response>>
    /\ UNCHANGED shared

\* lines 148-168: round 2 returns or raises; the result is sent either way
Round2Return(reply) ==
    /\ pc = "round2"
    /\ round2_reply' = reply
    /\ \E r \in {chat(reply)} :
           response' = Json(200, result_body(scenario_name, overrides, diff, simulated,
                                IF r.raised # "none"
                                THEN synthesized_narrative(scenario_name, diff)
                                ELSE r.content))
    /\ pc' = "done"
    /\ UNCHANGED <<scenario, messages, calls, round1_reply, content, tool_calls,
                   overrides, scenario_name, simulated, diff>>
    /\ UNCHANGED shared

Next ==
    \/ \E s \in Scenarios : Submit(s)
    \/ \E reply \in Round1Replies : Round1Return(reply)
    \/ Recalculate
    \/ Diff
    \/ \E reply \in Round2Replies : Round2Return(reply)

Spec == Init /\ [][Next]_vars

(***************************************************************************)
(* src/app.py: several requests in flight, each in a handler of its own    *)
(***************************************************************************)
\* the locals of the running handler, as they are parked when it is preempted
Context ==
    [pc |-> pc, scenario |-> scenario, messages |-> messages, calls |-> calls,
     round1_reply |-> round1_reply, round2_reply |-> round2_reply, content |-> content,
     tool_calls |-> tool_calls, overrides |-> overrides, scenario_name |-> scenario_name,
     simulated |-> simulated, diff |-> diff, response |-> response]

\* the server passes the processor to the handler of request r: the running
\* handler's locals are parked as they are, those of r are taken up again
Switch(r) ==
    /\ r \in DOMAIN parked
    /\ running' = r
    /\ parked' = [q \in (DOMAIN parked \ {r}) \cup {running} |->
                     IF q = running THEN Context ELSE parked[q]]
    /\ pc' = parked[r].pc
    /\ scenario' = parked[r].scenario
    /\ messages' = parked[r].messages
    /\ calls' = parked[r].calls
    /\ round1_reply' = parked[r].round1_reply
    /\ round2_reply' = parked[r].round2_reply
    /\ content' = parked[r].content
    /\ tool_calls' = parked[r].tool_calls
    /\ overrides' = parked[r].overrides
    /\ scenario_name' = parked[r].scenario_name
    /\ simulated' = parked[r].simulated
    /\ diff' = parked[r].diff
    /\ response' = parked[r].response
    /\ UNCHANGED tables

\* the replies the external model gives while several requests are in flight
ConcurrentRound1Replies ==
    { Replied(Text("I would lower the grid factor."), <<>>),
      Replied(Text(""), << Call("call_7", ArgText(
          "{\"overrides\": {\"warehousing.renewable_pct\": 50}, \"scenario_name\": \"Renewable Warehouse\"}")) >>),
      Replied(Text(""), << Call("call_7", ArgValue(Obj(
          ("overrides" :> Obj("port_drayage.ev_pct" :> Num(100000)))
          @@ ("scenario_name" :> Str("Scenario A"))))) >>) }

ConcurrentRound2Replies ==
    { Failed("HTTPError"), Replied(Text("Emissions fall."), <<>>) }

ConcurrentNext ==
    \/ \E s \in Scenarios \ {""} : Submit(s)
    \/ \E reply \in ConcurrentRound1Replies : Round1Return(reply)
    \/ Recalculate
    \/ Diff
    \/ \E reply \in ConcurrentRound2Replies : Round2Return(reply)
    \/ \E r \in 1..NumRequests : Switch(r)

ConcurrentSpec == Init /\ [][ConcurrentNext]_vars

(***************************************************************************)
(* Properties                                                              *)
(***************************************************************************)
Count(seq, x) == Cardinality({i \in 1..Len(seq) : seq[i] = x})
Abs(n) == IF n < 0 THEN -n ELSE n

\* the request has been computed on the empty mapping of overrides
EmptyOverridesComputed == diff # None /\ overrides = Obj(NoFields)

\* C1: for the empty OverrideSet the grand total and each of the nine stage
\* totals equal the hardcoded baseline of compute_diff within rounding
\* tolerance (one kilogram here), so the diff of an unmodified scenario shows
\* no delta in total and in every stage.
C1_EmptyOverridesReproduceBaseline ==
    EmptyOverridesComputed =>
        /\ Abs(diff.total.delta_kg) <= 10
        /\ diff.total.delta_pct = 0
        /\ \A i \in 1..9 : /\ Abs(diff.by_stage[i].delta_kg) <= 10
                           /\ diff.by_stage[i].delta_pct = 0

\* C2: round 2 is posted only after round 1 has returned an invocation and
\* the recalculation and the diff have completed; it is never posted on the
\* failure or the no-call path; each round is posted at most once a request.
C2_RoundTwoOnlyAfterRoundOne ==
    /\ Count(calls, "chat_with_tools") <= 1
    /\ Count(calls, "chat") <= 1
    /\ Count(calls, "chat") = 1 =>
          /\ calls = <<"chat_with_tools", "recalculate_emissions", "compute_diff", "chat">>
          /\ round1_reply # None
          /\ round1_reply.failure = "none"
          /\ Len(tool_calls) > 0
          /\ simulated # None
          /\ diff # None
    /\ (pc = "done" /\ "error" \in DOMAIN response.body) => Count(calls, "chat") = 0

\* round 2 has been posted and not yet answered
C2_Witness == pc = "round2" /\ Count(calls, "chat") = 1 /\ round2_reply = None

\* round 1 failed: transport, HTTP status, body, missing message, or a
\* structured call whose argument text is not JSON
Round1Failure ==
    /\ round1_reply # None
    /\ \/ round1_reply.failure \in Failures
       \/ \E i \in 1..Len(round1_reply.message.tool_calls) :
             /\ round1_reply.message.tool_calls[i].arguments.is_str
             /\ round1_reply.message.tool_calls[i].arguments.text \in NotJsonTexts

\* C3: a failed round 1 ends the request in a server error carrying an error
\* message; the recalculation, the diff and round 2 are not executed.
C3_RoundOneFailureIsFatal ==
    Round1Failure =>
        /\ pc = "done"
        /\ response.status = 500
        /\ response.json
        /\ DOMAIN response.body = {"error"}
        /\ response.body.error.text = "Minimax API error: {e}"
        /\ calls = <<"chat_with_tools">>
        /\ simulated = None
        /\ diff = None

\* round 1 answered with a structured call whose arguments do not parse
C3_Witness ==
    /\ Round1Failure
    /\ round1_reply.failure = "none"
    /\ pc = "done"
    /\ response.status = 500

\* C4: when round 2 fails after the recalculation, the request still returns
\* the full result; its numeric fields are those of the computed state, the
\* same as when round 2 succeeds, and its narrative is the one line built
\* from the scenario name and diff.total.delta_pct.
C4_RoundTwoFailureDegrades ==
    (pc = "done" /\ round2_reply # None) =>
        /\ response.status = 200
        /\ response.json
        /\ DOMAIN response.body = {"scenario", "overrides", "original", "simulated",
                                   "diff", "stage_details", "narrative"}
        /\ response.body.scenario = scenario_name
        /\ response.body.overrides = overrides
        /\ response.body.original.total_kg_co2e = original_total * 10
        /\ response.body.simulated.total_kg_co2e = simulated.totals.total_kg_co2e
        /\ response.body.diff = diff
        /\ response.body.stage_details = simulated
        /\ round2_reply.failure = "none" =>
              response.body.narrative = round2_reply.message.content
        /\ round2_reply.failure # "none" =>
              response.body.narrative =
                  [text |-> "Scenario '{scenario_name}' applied. Total emissions change: {delta_pct}%.",
                   scenario_name |-> scenario_name,
                   delta_pct |-> diff.total.delta_pct]

\* round 2 failed and the result was returned, with a change to report
C4_Witness ==
    /\ pc = "done"
    /\ round2_reply # None
    /\ round2_reply.failure # "none"
    /\ response.status = 200
    /\ DOMAIN overrides.o # {}

\* the reply to round 1 holds no structured call and no tagged block with
\* an invoke element
NoInvocation ==
    /\ round1_reply # None
    /\ round1_reply.failure = "none"
    /\ Len(round1_reply.message.tool_calls) = 0
    /\ \A i \in 1..Len(round1_reply.message.content.blocks) :
          round1_reply.message.content.blocks[i].invoke = ""

\* C5: without an invocation the request ends in the no-call outcome: the
\* scenario text, the raw reply as narrative and an error field; no
\* recalculation, no diff and no round 2.
C5_NoCallOutcome ==
    NoInvocation =>
        /\ pc = "done"
        /\ response.status = 200
        /\ response.json
        /\ DOMAIN response.body = {"scenario", "narrative", "error"}
        /\ response.body.scenario = scenario
        /\ response.body.narrative = round1_reply.message.content
        /\ calls = <<"chat_with_tools">>
        /\ simulated = None
        /\ diff = None

\* the reply held a tagged block, but none with an invoke element
C5_Witness ==
    /\ NoInvocation
    /\ Len(round1_reply.message.content.blocks) > 0
    /\ pc = "done"

\* the override keys of the wire contract
OverrideKeys == {KeyName[c] : c \in DOMAIN KeyName}

\* round 1 answered with tagged markup only, and some block has an invoke
FallbackInvocation ==
    /\ round1_reply # None
    /\ round1_reply.failure = "none"
    /\ Len(round1_reply.message.tool_calls) = 0
    /\ \E i \in 1..Len(round1_reply.message.content.blocks) :
          round1_reply.message.content.blocks[i].invoke # ""

\* the parameters of the first block with an invoke element
FirstInvokeParameters ==
    LET blocks == round1_reply.message.content.blocks
        first == CHOOSE i \in 1..Len(blocks) :
                    /\ blocks[i].invoke # ""
                    /\ \A j \in 1..(i - 1) : blocks[j].invoke = ""
    IN  blocks[first].parameters

\* every parameter of the tagged invocation that names an override key is in
\* the overrides passed to the recalculation, with the value its text parses to
TaggedOverridesApplied ==
    \A j \in 1..Len(FirstInvokeParameters) :
        LET k == FirstInvokeParameters[j].name
            text == strip(FirstInvokeParameters[j].text)
        IN  ( /\ k \in OverrideKeys
              /\ text \in DOMAIN JsonTexts
              /\ \A m \in (j + 1)..Len(FirstInvokeParameters) :
                    FirstInvokeParameters[m].name # k )
            => /\ overrides.t = "obj"
               /\ k \in DOMAIN overrides.o
               /\ overrides.o[k] = JsonTexts[text]

\* C6: on the fallback path, a parameter element named k whose text parses
\* as JSON gives overrides[k] = the parsed value in the mapping the handler
\* passes to the recalculation (warehousing.renewable_pct with text 50 gives
\* the number 50).
C6_TaggedParameterReachesOverrides ==
    (FallbackInvocation /\ overrides # None) => TaggedOverridesApplied

\* a numeric override key carries a value that is no number
MistypedOverride ==
    /\ overrides # None
    /\ overrides.t = "obj"
    /\ \E k \in NumericKeys \cap DOMAIN overrides.o : overrides.o[k].t \notin {"num", "bool"}

\* C7: a non-numeric value under a numeric override key fails the request
\* with a ValidationError naming the key, a client-error outcome; no other
\* exception type escapes the computation.
C7_MistypedOverrideIsClientError ==
    (pc = "done" /\ MistypedOverride) =>
        /\ response.status = 400
        /\ response.json
        /\ "error" \in DOMAIN response.body

\* C8: whatever the overrides, every stage total is non-negative, the
\* drayage trip counts stay within 0..7 and the grand total is positive.
C8_TotalsNonNegative ==
    simulated # None =>
        /\ \A i \in 1..9 : simulated.totals.by_stage[i].kg_co2e >= 0
        /\ simulated.port_drayage.ev_trips \in 0..(DRAYAGE_TRIPS_DIESEL + DRAYAGE_TRIPS_EV)
        /\ simulated.port_drayage.diesel_trips \in 0..(DRAYAGE_TRIPS_DIESEL + DRAYAGE_TRIPS_EV)
        /\ simulated.totals.total_kg_co2e > 0

\* the response is the full result
CompleteResult ==
    /\ response.status = 200
    /\ response.json
    /\ DOMAIN response.body = {"scenario", "overrides", "original", "simulated",
                               "diff", "stage_details", "narrative"}

\* C9: a request with a non-empty scenario ends in a complete result with
\* the model's narrative, a complete result with the synthesized narrative,
\* or a no-call or error outcome carrying an error field; a complete result
\* is computed from all the overrides the model expressed.
C9_EveryOutcomeLabelled ==
    (pc = "done" /\ scenario # "") =>
        \/ /\ CompleteResult
           /\ FallbackInvocation => TaggedOverridesApplied
        \/ /\ response.json
           /\ "error" \in DOMAIN response.body

\* exact products too wide for one machine integer: <<h, q, r>> stands for
\* h * 1000 + q + r / Den with 0 <= q < 1000 and 0 <= r < Den
WNorm(h, q, r) == <<h + ((q + (r \div Den)) \div 1000), (q + (r \div Den)) % 1000, r % Den>>
WOf(a) == WNorm(0, a[1], a[2])
WTimes(k, w) == WNorm(k * w[1], k * w[2], k * w[3])
WAdd(v, w) == WNorm(v[1] + w[1], v[2] + w[2], v[3] + w[3])
WSub(v, w) == WAdd(v, WTimes(-1, w))
WAbs(w) == IF w[1] < 0 THEN WTimes(-1, w) ELSE w
WLeq(v, w) ==
    \/ v[1] < w[1]
    \/ v[1] = w[1] /\ v[2] < w[2]
    \/ v[1] = w[1] /\ v[2] = w[2] /\ v[3] <= w[3]
\* k * a for any k of up to six digits
WProduct(k, a) == WAdd(WTimes(k \div 1000, WTimes(1000, WOf(a))), WTimes(k % 1000, WOf(a)))

\* p is within half a unit of 1000 * val / total: |p * total - 1000 * val|
\* is at most |total| / 2
NearestThousandth(p, val, total) ==
    WLeq(WTimes(2, WAbs(WSub(WProduct(p, total), WProduct(1000, val)))), WAbs(WOf(total)))

\* each pct is stage / grand total * 100 to the nearest tenth, and each
\* kg_co2e the stage total to the nearest tenth of a kilogram
Rounded(vals, total) ==
    \A i \in 1..9 :
        /\ NearestThousandth(simulated.totals.by_stage[i].pct, vals[i], total)
        /\ PLeq(PTimes(2, PAbs(PSub(PInt(simulated.totals.by_stage[i].kg_co2e), vals[i]))),
                PInt(1))
PctRounded == \E vals \in {stages(overrides)} : Rounded(vals, grand_total(vals))

PctKeys == {k \in NumericKeys : k \notin {"raw_materials.steel_factor",
                                          "raw_materials.tritan_factor",
                                          "raw_materials.silicone_factor",
                                          "manufacturing.grid_factor"}}

\* every numeric override is a number in its documented range: percentages
\* within 0..100, emission factors not negative
InRange(ov) ==
    /\ ov.t = "obj"
    /\ \A k \in NumericKeys \cap DOMAIN ov.o :
          /\ ov.o[k].t = "num"
          /\ ov.o[k].n >= 0
          /\ k \in PctKeys => ov.o[k].n <= 100000

\* the sum of the nine pct values of an aggregate, in tenths of a percent
RECURSIVE PctSum(_, _)
PctSum(stage_list, n) ==
    IF n = 0 THEN 0 ELSE PctSum(stage_list, n - 1) + stage_list[n].pct

\* C11: for every aggregate computed from in-range overrides, the nine
\* by_stage pct values, each rounded to one decimal, sum to 100 within 0.2.
C11_PctSumWithinTolerance ==
    (simulated # None /\ InRange(overrides)) =>
        Abs(PctSum(simulated.totals.by_stage, 9) - 1000) <= 2

\* the overrides ask for an EV percentage within 0..100
EvPctInRange ==
    /\ overrides # None
    /\ overrides.t = "obj"
    /\ "port_drayage.ev_pct" \in DOMAIN overrides.o
    /\ overrides.o["port_drayage.ev_pct"].t = "num"
    /\ overrides.o["port_drayage.ev_pct"].n \in 0..100000

\* the drayage stage of the aggregate against the requested percentage n
\* (thousandths of a percent): ev is within half a trip of 7 * n / 100, the
\* diesel trips are the rest of the 7, the total is the two trip costs
DrayageFollows(n, stage) ==
    /\ 2 * Abs(100000 * stage.ev_trips - 7 * n) <= 100000
    /\ stage.ev_trips + stage.diesel_trips = 7
    /\ stage.total_kg_co2e = stage.diesel_trips * 1813 + stage.ev_trips * 230
    /\ n = 100000 => /\ stage.diesel_trips = 0
                     /\ stage.ev_trips = 7
                     /\ stage.total_kg_co2e = 7 * DRAYAGE_CO2_EV

\* C12: for ev_pct in 0..100, ev_trips is 7 * ev_pct / 100 rounded to the
\* nearest whole trip, diesel_trips is 7 - ev_trips, the drayage total is
\* diesel_trips * 181.3 + ev_trips * 23.0; ev_pct = 100 gives 0 diesel
\* trips, 7 EV trips and a total of 7 EV trip costs.
C12_DrayageTripsSplit ==
    (simulated # None /\ EvPctInRange) =>
        DrayageFollows(overrides.o["port_drayage.ev_pct"].n, simulated.port_drayage)

\* an aggregate computed for an all-EV drayage fleet
C12_Witness ==
    /\ simulated # None
    /\ EvPctInRange
    /\ overrides.o["port_drayage.ev_pct"].n = 100000
    /\ simulated.port_drayage.ev_trips = 7

\* the overrides force the ultra_slow tier onto every shipment
AllUltraSlow ==
    /\ overrides # None
    /\ overrides.t = "obj"
    /\ Get(overrides, "ocean_freight.all_same_speed", Null) = Bool(TRUE)
    /\ Get(overrides, "ocean_freight.speed_mode", Null) = Str("ultra_slow")

\* a speed_mode is given and all_same_speed is absent or false
ExpressOnly ==
    /\ overrides # None
    /\ overrides.t = "obj"
    /\ Get(overrides, "ocean_freight.speed_mode", Null).t = "str"
    /\ Get(overrides, "ocean_freight.speed_mode", Null).s # ""
    /\ Get(overrides, "ocean_freight.all_same_speed", Bool(FALSE)) = Bool(FALSE)

\* the ocean-freight total of the unmodified scenario, in tenths of a kilogram
BaselineOceanTotal == 10 * original_stages[5]

\* C13: all_same_speed = true with speed_mode = "ultra_slow" computes and
\* reports each of the 6 shipments at the ultra_slow tier and gives an ocean
\* total strictly below the baseline; a speed_mode without all_same_speed
\* retargets only the shipments whose baseline tier is express.
C13_SpeedModeTargets ==
    simulated # None =>
        /\ AllUltraSlow =>
              /\ Len(simulated.ocean_freight.shipments) = 6
              /\ \A i \in 1..6 :
                    /\ simulated.ocean_freight.shipments[i].speed = Str("ultra_slow")
                    /\ simulated.ocean_freight.shipments[i].co2_kg
                       = 10 * OCEAN_SHIPMENTS[i].containers
                            * OCEAN_CO2_PER_CONTAINER["ultra_slow"][OCEAN_SHIPMENTS[i].teu_class]
              /\ simulated.ocean_freight.total_kg_co2e < BaselineOceanTotal
              /\ BaselineOceanTotal = PRound(ocean_total(Obj(NoFields)))
        /\ ExpressOnly =>
              \A i \in 1..6 :
                  simulated.ocean_freight.shipments[i].speed
                  = IF OCEAN_SHIPMENTS[i].speed = "express"
                    THEN overrides.o["ocean_freight.speed_mode"]
                    ELSE Str(OCEAN_SHIPMENTS[i].speed)

\* an aggregate computed with every vessel forced to ultra slow
C13_Witness ==
    /\ simulated # None
    /\ AllUltraSlow
    /\ simulated.ocean_freight.total_kg_co2e = 74900

\* an aggregate where only the express vessel was retargeted
ExpressRetargeted ==
    /\ simulated # None
    /\ ExpressOnly
    /\ simulated.ocean_freight.shipments[6].speed = Str("moderate")
    /\ simulated.ocean_freight.shipments[1].speed = Str("slow")

\* the per-container cost of the slowest recognized tier handled by the
\* code's default, for the most common container class
FallbackCost == OCEAN_CO2_PER_CONTAINER["slow"][19100]

\* shipment i was computed at a tier outside the cost table, or has a
\* container class outside it
Unpriced(i) ==
    \/ simulated.ocean_freight.shipments[i].speed.t # "str"
    \/ simulated.ocean_freight.shipments[i].speed.s \notin DOMAIN OCEAN_CO2_PER_CONTAINER
    \/ OCEAN_SHIPMENTS[i].teu_class \notin DOMAIN OCEAN_CO2_PER_CONTAINER["slow"]

\* C14: a shipment whose effective tier is not one of the four recognized
\* tiers, or whose container class is not in the cost table, is priced at the
\* one fallback cost (slow tier, most common class), whatever its own class.
C14_SingleFallbackCost ==
    simulated # None =>
        \A i \in 1..Len(OCEAN_SHIPMENTS) :
            Unpriced(i) =>
                simulated.ocean_freight.shipments[i].co2_kg
                = 10 * OCEAN_SHIPMENTS[i].containers * FallbackCost

\* the locals of every request in flight
Contexts == {Context} \cup {parked[r] : r \in DOMAIN parked}

\* the conversation a request opens with
FreshConversation(s) ==
    << [role |-> "system", content |-> [text |-> "SIMULATE_SYSTEM_PROMPT"]],
       [role |-> "user", content |-> [text |-> "Model this scenario: {scenario}",
                                      scenario |-> s]] >>

\* the conversation of c holds the opening built from its own scenario and,
\* from round 2 on, the two messages built from its own results
OwnConversation(c) ==
    /\ c.pc \in {"round1", "invoked", "computed"} => c.messages = FreshConversation(c.scenario)
    /\ c.diff # None =>
          c.messages = FreshConversation(c.scenario)
                       \o round2_messages(c.content, c.tool_calls[1], c.scenario_name,
                                          c.overrides, c.simulated, c.diff)

\* what c computed follows from its own scenario and its own two replies
OwnResult(c) ==
    /\ c.overrides # None =>
          /\ c.round1_reply # None
          /\ c.tool_calls = chat_with_tools(c.round1_reply).tool_calls
          /\ c.overrides = Get(c.tool_calls[1].arguments, "overrides", Obj(NoFields))
          /\ c.scenario_name = Get(c.tool_calls[1].arguments, "scenario_name", Str(c.scenario))
    /\ c.simulated # None => c.simulated = recalculate_emissions(c.overrides)
    /\ c.diff # None => c.diff = compute_diff(c.simulated)
    /\ (c.pc = "done" /\ c.diff # None) =>
          /\ c.round2_reply # None
          /\ c.response = Json(200, result_body(c.scenario_name, c.overrides, c.diff, c.simulated,
                                   IF chat(c.round2_reply).raised # "none"
                                   THEN synthesized_narrative(c.scenario_name, c.diff)
                                   ELSE chat(c.round2_reply).content))

\* C15: however the requests interleave, each one's conversation is built
\* fresh and its overrides, totals, diff and response follow from its own
\* scenario and its own replies alone; the tables loaded at startup stay as
\* they were.
C15_RequestsIsolated ==
    /\ tables = Startup
    /\ \A c \in Contexts : OwnConversation(c) /\ OwnResult(c)

\* two requests in flight with different scenarios and different overrides,
\* one answered in full while the other waits for its narrative
C15_Witness ==
    /\ pc = "done"
    /\ diff # None
    /\ \E r \in DOMAIN parked :
          /\ parked[r].pc = "round2"
          /\ parked[r].scenario # scenario
          /\ parked[r].overrides # overrides
====
